---- MODULE Spec2Model ----
(***************************************************************************)
(* Model of sql-migrate/config.go: the configuration and connection layer  *)
(* of the sql-migrate command line tool.                                   *)
(*                                                                         *)
(* Strings whose contents the code inspects (the data source, names of     *)
(* environment variables, values of the process environment) are sequences *)
(* of one-character strings and are indexed from 0 as in Go through At and *)
(* Slice.  Strings that the code only compares or passes on (dialect,      *)
(* directory, table, schema, environment name, file name) are TLA+ strings.*)
(* A Go pointer is <<>> (nil) or <<v>>; a Go error is <<>> (nil) or the    *)
(* sequence of the parts of its message.                                   *)
(***************************************************************************)
EXTENDS Integers, Sequences, FiniteSets, TLC

VARIABLES
    ConfigFile,         \* var ConfigFile string
    ConfigEnvironment,  \* var ConfigEnvironment string
    environ,            \* the process environment (os.Getenv / os.ExpandEnv)
    drivers,            \* names registered with database/sql by the build
    tableName,          \* migrate's global table name    (migrate.SetTable)
    schemaName,         \* migrate's global schema name   (migrate.SetSchema)
    ignoreUnknown,      \* migrate's global flag          (migrate.SetIgnoreUnknown)
    tlsRegistry,        \* mysql driver's registry of named TLS configs
    disk,               \* what the file system holds at the config path
    env,                \* the caller's *Environment: what GetEnvironment returned
    call                \* the most recent call and what it returned

vars == <<ConfigFile, ConfigEnvironment, environ, drivers, tableName,
          schemaName, ignoreUnknown, tlsRegistry, disk, env, call>>

(***************************************************************************)
(* Bounds                                                                  *)
(***************************************************************************)
\* Data sources are concatenations of at most MaxFrags fragments.
MaxFrags == 2

(***************************************************************************)
(* Go strings                                                              *)
(***************************************************************************)
At(s, i) == s[i + 1]                        \* s[i]
Slice(s, a, b) == SubSeq(s, a + 1, b)       \* s[a:b]

Digits == {"0", "1", "2", "3", "4", "5", "6", "7", "8", "9"}

Letters ==
    {"a", "b", "c", "d", "e", "f", "g", "h", "i", "j", "k", "l", "m",
     "n", "o", "p", "q", "r", "s", "t", "u", "v", "w", "x", "y", "z",
     "A", "B", "C", "D", "E", "F", "G", "H", "I", "J", "K", "L", "M",
     "N", "O", "P", "Q", "R", "S", "T", "U", "V", "W", "X", "Y", "Z"}

\* os.isShellSpecialVar
isShellSpecialVar(c) == c \in {"*", "#", "$", "@", "!", "?", "-"} \cup Digits

\* os.isAlphaNum
isAlphaNum(c) == c = "_" \/ c \in Digits \/ c \in Letters

\* os.getShellName, "Scan to closing brace": for i := 1; i < len(s); i++
RECURSIVE scanBrace(_, _)
scanBrace(s, i) ==
    IF i < Len(s)
    THEN IF At(s, i) = "}"
         THEN IF i = 1
              THEN <<<<>>, 2>>                  \* bad syntax; eat "${}"
              ELSE <<Slice(s, 1, i), i + 1>>
         ELSE scanBrace(s, i + 1)
    ELSE <<<<>>, 1>>                            \* bad syntax; eat "${"

\* os.getShellName, "Scan alphanumerics": the index of the first other byte
RECURSIVE scanAlphaNum(_, _)
scanAlphaNum(s, i) ==
    IF i < Len(s) /\ isAlphaNum(At(s, i)) THEN scanAlphaNum(s, i + 1) ELSE i

\* os.getShellName: the name that begins s (the text after a "$") and the
\* number of bytes it takes.  s is not empty.
getShellName(s) ==
    IF At(s, 0) = "{"
    THEN IF Len(s) > 2 /\ isShellSpecialVar(At(s, 1)) /\ At(s, 2) = "}"
         THEN <<Slice(s, 1, 2), 3>>
         ELSE scanBrace(s, 1)
    ELSE IF isShellSpecialVar(At(s, 0))
         THEN <<Slice(s, 0, 1), 1>>
         ELSE LET i == scanAlphaNum(s, 0) IN <<Slice(s, 0, i), i>>

\* os.Getenv on the process environment e: "" when the variable is unset
Getenv(e, key) == IF key \in DOMAIN e THEN e[key] ELSE <<>>

\* os.Expand's loop, with os.Getenv on e as the mapping.  buf is <<>> for
\* the nil buffer and <<bytes>> once allocated; i and j are the loop's.
RECURSIVE expandLoop(_, _, _, _, _)
expandLoop(s, e, i, j, buf) ==
    IF j >= Len(s)
    THEN IF buf = <<>> THEN s ELSE buf[1] \o Slice(s, i, Len(s))
    ELSE IF At(s, j) = "$" /\ j + 1 < Len(s)
         THEN LET b0 == (IF buf = <<>> THEN <<>> ELSE buf[1]) \o Slice(s, i, j)
                  nw == getShellName(Slice(s, j + 1, Len(s)))
                  name == nw[1]
                  w == nw[2]
                  b1 == IF name = <<>> /\ w > 0
                        THEN b0                      \* invalid syntax: eaten
                        ELSE IF name = <<>>
                             THEN Append(b0, At(s, j))  \* "$" left untouched
                             ELSE b0 \o Getenv(e, name)
              IN expandLoop(s, e, j + w + 1, j + w + 1, <<b1>>)
         ELSE expandLoop(s, e, i, j + 1, buf)

\* fault: the data source is returned as configured, unexpanded
ExpandEnv_unexpanded(s, e) == s

\* os.ExpandEnv(s) in the process environment e
ExpandEnv(s, e) == expandLoop(s, e, 0, 0, <<>>)

\* strings.Contains
Contains(s, substr) ==
    \E i \in 0..(Len(s) - Len(substr)) : Slice(s, i, i + Len(substr)) = substr


(***************************************************************************)
(* Program constants                                                       *)
(***************************************************************************)
\* fault: a dialect entry for every driver a build may link
dialects_withMssql == {"sqlite3", "postgres", "mysql", "mssql"}

\* var dialects: the names of the compiled-in gorp dialects
dialects == {"sqlite3", "postgres", "mysql"}

\* the drivers the imports of config.go register with database/sql
ImportedDrivers == {"mysql", "postgres", "sqlite3"}

\* the literal of isTlsEnabled
TlsMarker == <<"t", "l", "s", "=", "c", "u", "s", "t", "o", "m">>

\* the names GetConnection passes to os.Getenv
MYSQL_CA_CERT_FILE ==
    <<"M", "Y", "S", "Q", "L", "_", "C", "A", "_",
      "C", "E", "R", "T", "_", "F", "I", "L", "E">>
MYSQL_HOST == <<"M", "Y", "S", "Q", "L", "_", "H", "O", "S", "T">>

\* the defaults of the -config and -env flags
DefaultConfigFile == "dbconfig.yml"
DefaultEnvironment == "development"

\* the zero value of every field of a call record
NoCall ==
    [op |-> "none", err |-> <<>>, steps |-> <<>>, db |-> "nil",
     dialect |-> "", unclosed |-> FALSE]

(***************************************************************************)
(* The world outside the program: files, process environments              *)
(***************************************************************************)
VarA == <<"A">>
ValueDb == <<"d", "b">>
CaPath == <<"/", "c", "a">>
JunkPath == <<"/", "j">>
HostName == <<"h">>

\* what os.ReadFile gives for the certificate paths that exist: a PEM
\* block with a certificate, or bytes that hold none
CertFiles == (CaPath :> "PEM") @@ (JunkPath :> "junk")

\* the process environments: nothing set; everything set; a CA path of a
\* file that holds no certificate; a value that itself reads as a placeholder
Environs ==
    { <<>>,
      (VarA :> ValueDb) @@ (MYSQL_CA_CERT_FILE :> CaPath) @@ (MYSQL_HOST :> HostName),
      (MYSQL_CA_CERT_FILE :> JunkPath),
      (VarA :> <<"$", "A">>) }

\* data sources: concatenations of fragments that exercise the placeholder
\* syntax of os.Expand and the marker of isTlsEnabled
Fragments ==
    { <<"$">>, <<"$", "{">>, <<"}">>, <<"A">>, <<"/">>,
      <<"$", "A">>, <<"$", "{", "A", "}">>,
      <<"t", "l", "s", "=">>, TlsMarker }

RECURSIVE Concatenations(_)
Concatenations(n) ==
    IF n = 0 THEN {<<>>}
    ELSE LET P == Concatenations(n - 1)
         IN P \cup {p \o f : p \in P, f \in Fragments}

DataSources == Concatenations(MaxFrags)

\* type Environment struct, as yaml.Unmarshal fills it (an absent field is
\* its zero value); a key whose value is null parses to a nil pointer
SettingsEntries ==
    [Dialect : {"", "mysql"},
     DataSource : {<<>>, ValueDb},
     Dir : {""},
     TableName : {"", "t1", "t2"},
     SchemaName : {"", "s1"},
     IgnoreUnknown : BOOLEAN]

DataSourceEntries ==
    [Dialect : {"", "mysql", "postgres"},
     DataSource : DataSources,
     Dir : {"", "db/migrations"},
     TableName : {""},
     SchemaName : {""},
     IgnoreUnknown : {FALSE}]

ConnectionEntries ==
    [Dialect : {"mysql", "postgres", "sqlite3", "mssql", "oracle"},
     DataSource : {ValueDb, ValueDb \o <<"?">> \o TlsMarker},
     Dir : {""},
     TableName : {""},
     SchemaName : {""},
     IgnoreUnknown : {FALSE}]

\* what is at the config path: no readable file, a file that is not a YAML
\* mapping of the expected shape, or a config (environment name ->
\* *Environment)
Unreadable == [kind |-> "unreadable", config |-> <<>>]
BadYaml == [kind |-> "badyaml", config |-> <<>>]
Yaml(config) == [kind |-> "yaml", config |-> config]

\* configs of one environment
OneKey(entries) ==
    { Yaml(<<>>), Yaml(DefaultEnvironment :> <<>>) }
        \cup { Yaml(DefaultEnvironment :> <<e>>) : e \in entries }

\* configs of two environments
TwoKeys(entries) ==
    { Yaml((DefaultEnvironment :> <<d>>) @@ ("production" :> <<p>>)) :
        d \in entries, p \in entries }

(***************************************************************************)
(* ReadConfig and GetEnvironment                                           *)
(***************************************************************************)
\* ReadConfig: <<config, err>>.  os.ReadFile("") fails whatever the disk
\* holds.
ReadConfig(path, file) ==
    IF path = "" \/ file.kind = "unreadable" THEN <<<<>>, <<"open ", path>>>>
    ELSE IF file.kind = "badyaml" THEN <<<<>>, <<"yaml: unmarshal errors">>>>
    ELSE <<file.config, <<>>>>

\* config[name]: nil when the map has no such key
Lookup(config, name) == IF name \in DOMAIN config THEN config[name] ELSE <<>>

\* fault: the data source is checked before the dialect
Validate_dataSourceFirst(p, name) ==
    IF p = <<>> THEN <<"No environment: ", name>>
    ELSE IF p[1].DataSource = <<>> THEN <<"No data source specified">>
    ELSE IF p[1].Dialect = "" THEN <<"No dialect specified">>
    ELSE <<>>

\* fault: the error names the default environment, not the requested one
Validate_defaultName(p, name) ==
    IF p = <<>> THEN <<"No environment: ", "development">>
    ELSE IF p[1].Dialect = "" THEN <<"No dialect specified">>
    ELSE IF p[1].DataSource = <<>> THEN <<"No data source specified">>
    ELSE <<>>

\* the checks GetEnvironment makes of p = config[name], in its order: the
\* error it returns, or nil
Validate(p, name) ==
    IF p = <<>> THEN <<"No environment: ", name>>
    ELSE IF p[1].Dialect = "" THEN <<"No dialect specified">>
    ELSE IF p[1].DataSource = <<>> THEN <<"No data source specified">>
    ELSE <<>>

\* what GetEnvironment does to the entry that passed its checks
Complete(p, e) ==
    LET e1 == [p EXCEPT !.DataSource = ExpandEnv(@, e)]
    IN  [e1 EXCEPT !.Dir = IF @ = "" THEN "migrations" ELSE @]

\* GetEnvironment up to its return value: [env, err], and entry, the
\* pointer config[name] it looked up (nil when it did not get that far)
Resolve(path, name, file, e) ==
    LET rc == ReadConfig(path, file)
        p == Lookup(rc[1], name)
    IN  IF rc[2] # <<>>
        THEN [env |-> <<>>, err |-> rc[2], entry |-> <<>>]
        ELSE IF Validate(p, name) # <<>>
        THEN [env |-> <<>>, err |-> Validate(p, name), entry |-> p]
        ELSE [env |-> <<Complete(p[1], e)>>, err |-> <<>>, entry |-> p]

\* fault: SetTable and SetSchema are called without the test for ""
Settings_unguarded(r, g) ==
    IF r.err # <<>> THEN g
    ELSE [table |-> r.env[1].TableName,
          schema |-> r.env[1].SchemaName,
          ignore |-> r.env[1].IgnoreUnknown]

\* fault: the setters are called as soon as the entry is looked up, before
\* it is validated
Settings_beforeValidation(r, g) ==
    IF r.entry = <<>> THEN g
    ELSE [table |-> IF r.entry[1].TableName # "" THEN r.entry[1].TableName ELSE g.table,
          schema |-> IF r.entry[1].SchemaName # "" THEN r.entry[1].SchemaName ELSE g.schema,
          ignore |-> r.entry[1].IgnoreUnknown]

\* the calls of migrate.SetTable, migrate.SetSchema and
\* migrate.SetIgnoreUnknown that GetEnvironment makes before it returns r:
\* the globals after the call, from the globals g before it
Settings(r, g) ==
    IF r.err # <<>> THEN g
    ELSE [table |-> IF r.env[1].TableName # "" THEN r.env[1].TableName ELSE g.table,
          schema |-> IF r.env[1].SchemaName # "" THEN r.env[1].SchemaName ELSE g.schema,
          ignore |-> r.env[1].IgnoreUnknown]

GetEnvironment ==
    LET r == Resolve(ConfigFile, ConfigEnvironment, disk, environ)
        g == Settings(r, [table |-> tableName, schema |-> schemaName,
                          ignore |-> ignoreUnknown])
    IN  /\ env' = r.env
        /\ tableName' = g.table
        /\ schemaName' = g.schema
        /\ ignoreUnknown' = g.ignore
        /\ call' = [NoCall EXCEPT !.op = "GetEnvironment", !.err = r.err]
        /\ UNCHANGED <<ConfigFile, ConfigEnvironment, environ, drivers,
                       tlsRegistry, disk>>

\* the environment names given with -env
EnvNames == {DefaultEnvironment, "production", "staging"}

\* ConfigFlags and the parse of the flag set: both globals get their
\* default or the value given on the command line
ConfigFlags ==
    \E n \in EnvNames :
        /\ ConfigFile' = DefaultConfigFile
        /\ ConfigEnvironment' = n
        /\ call' = [NoCall EXCEPT !.op = "ConfigFlags"]
        /\ UNCHANGED <<environ, drivers, tableName, schemaName, ignoreUnknown,
                       tlsRegistry, disk, env>>

(***************************************************************************)
(* RegisterTlsConfig and GetConnection                                     *)
(***************************************************************************)
\* fault: every data source counts as asking for the custom TLS config
isTlsEnabled_always(e) == TRUE

\* isTlsEnabled
isTlsEnabled(e) == Contains(e.DataSource, TlsMarker)

\* fault: the errors of the registration are swallowed
RegisterTlsConfig_swallowed(pemPath, tlsConfigKey, serverName, registry) ==
    [err |-> <<>>, registry |-> registry]

\* RegisterTlsConfig: [err, registry], the registry of the mysql driver
\* after the call
RegisterTlsConfig(pemPath, tlsConfigKey, serverName, registry) ==
    IF pemPath \notin DOMAIN CertFiles
    THEN [err |-> <<"open ", pemPath>>, registry |-> registry]
    ELSE IF CertFiles[pemPath] # "PEM"
    THEN [err |-> <<"cannot append certs from PEM">>, registry |-> registry]
    ELSE [err |-> <<>>,
          registry |-> (tlsConfigKey :> [RootCAs |-> pemPath, ServerName |-> serverName])
                           @@ registry]

\* sql.Open: an unknown driver is an error; a registered driver may refuse
\* the data source (openOk)
sqlOpen(driverName, drv, openOk) ==
    IF driverName \notin drv THEN <<"sql: unknown driver ", driverName>>
    ELSE IF ~openOk THEN <<"invalid data source">>
    ELSE <<>>

\* GetConnection(e): the steps it runs, what it returns and the registry
\* it leaves.  openOk and pingOk are the answers of the driver and of the
\* server.
Connect(e, penv, registry, drv, openOk, pingOk) ==
    LET tls == e.Dialect = "mysql" /\ isTlsEnabled(e)
        reg == IF tls
               THEN RegisterTlsConfig(Getenv(penv, MYSQL_CA_CERT_FILE), "custom",
                                      Getenv(penv, MYSQL_HOST), registry)
               ELSE [err |-> <<>>, registry |-> registry]
        s1 == IF tls THEN <<"RegisterTlsConfig">> ELSE <<>>
        openErr == sqlOpen(e.Dialect, drv, openOk)
    IN  IF reg.err # <<>>
        THEN [steps |-> s1, db |-> "nil", dialect |-> "", unclosed |-> FALSE,
              err |-> <<"cannot register TLS config: ">> \o reg.err,
              registry |-> reg.registry]
        ELSE IF openErr # <<>>
        THEN [steps |-> s1 \o <<"sql.Open">>, db |-> "nil", dialect |-> "",
              unclosed |-> FALSE,
              err |-> <<"cannot connect to database: ">> \o openErr,
              registry |-> reg.registry]
        ELSE IF ~pingOk
        THEN [steps |-> s1 \o <<"sql.Open", "db.Ping">>, db |-> "nil", dialect |-> "",
              unclosed |-> TRUE,
              err |-> <<"cannot ping database: ", "driver: bad connection">>,
              registry |-> reg.registry]
        ELSE IF e.Dialect \notin dialects
        THEN [steps |-> s1 \o <<"sql.Open", "db.Ping", "dialects">>, db |-> "nil",
              dialect |-> "", unclosed |-> TRUE,
              err |-> <<"unsupported dialect: ", e.Dialect>>,
              registry |-> reg.registry]
        ELSE [steps |-> s1 \o <<"sql.Open", "db.Ping", "dialects">>, db |-> "db",
              dialect |-> e.Dialect, unclosed |-> TRUE, err |-> <<>>,
              registry |-> reg.registry]

GetConnection ==
    /\ env # <<>>
    /\ \E openOk \in BOOLEAN, pingOk \in BOOLEAN :
        LET c == Connect(env[1], environ, tlsRegistry, drivers, openOk, pingOk)
        IN  /\ tlsRegistry' = c.registry
            /\ call' = [NoCall EXCEPT !.op = "GetConnection",
                                      !.steps = c.steps,
                                      !.db = c.db,
                                      !.dialect = c.dialect,
                                      !.unclosed = c.unclosed,
                                      !.err = c.err]
    /\ UNCHANGED <<ConfigFile, ConfigEnvironment, environ, drivers, tableName,
                   schemaName, ignoreUnknown, disk, env>>

(***************************************************************************)
(* Specifications                                                          *)
(***************************************************************************)
\* the state of the process as main starts, given what the file system
\* holds at the config path, the process environment and the drivers of
\* the build
Start(files, penvs, builds) ==
    /\ ConfigFile = ""
    /\ ConfigEnvironment = ""
    /\ environ \in penvs
    /\ drivers \in builds
    /\ disk \in files
    /\ tableName = "gorp_migrations"
    /\ schemaName = ""
    /\ ignoreUnknown = FALSE
    /\ tlsRegistry = <<>>
    /\ env = <<>>
    /\ call = NoCall

Next ==
    \/ ConfigFlags
    \/ GetEnvironment
    \/ GetConnection

\* configs of two environments whose settings vary
Init ==
    Start({Unreadable, BadYaml} \cup OneKey(SettingsEntries) \cup TwoKeys(SettingsEntries),
          {<<>>}, {ImportedDrivers})

Spec == Init /\ [][Next]_vars

\* configs whose data source varies, in every process environment
InitDataSource ==
    Start(OneKey(DataSourceEntries), Environs, {ImportedDrivers})

SpecDataSource == InitDataSource /\ [][Next]_vars

\* configs whose dialect varies, with and without the TLS marker, in every
\* process environment, for a build with the imported drivers only and for
\* one that links a further driver
InitConnection ==
    Start(OneKey(ConnectionEntries), Environs,
          {ImportedDrivers, ImportedDrivers \cup {"mssql"}})

SpecConnection == InitConnection /\ [][Next]_vars

(***************************************************************************)
(* Properties                                                              *)
(***************************************************************************)
\* the dialect names the connection opener is specified to accept
SupportedDialects == {"sqlite3", "postgres", "mysql"}

\* the entry of the config on disk under the selected name (nil if none),
\* and whether ReadConfig can parse what is on disk
Readable == ConfigFile # "" /\ disk.kind = "yaml"
Entry == Lookup(disk.config, ConfigEnvironment)

\* the last call was GetEnvironment / GetConnection: env is its argument
\* or result, call what it returned
Resolved == call.op = "GetEnvironment" /\ call.err = <<>>
Connected == call.op = "GetConnection"
Last(s) == s[Len(s)]

\* the step a GetConnection error comes from, by the prefix of its message
FailedStep(err) ==
    CASE err[1] = "cannot register TLS config: " -> "RegisterTlsConfig"
      [] err[1] = "cannot connect to database: " -> "sql.Open"
      [] err[1] = "cannot ping database: " -> "db.Ping"
      [] err[1] = "unsupported dialect: " -> "dialects"
      [] OTHER -> "none"

----------------------------------------------------------------------------
\* C1 (as claimed): GetConnection with a dialect that is not sqlite3,
\* postgres or mysql fails with the "unsupported dialect" error, whatever
\* the open and ping steps do.
C1_AlwaysUnsupportedDialectError ==
    (Connected /\ env[1].Dialect \notin SupportedDialects)
        => call.err = <<"unsupported dialect: ", env[1].Dialect>>

\* C1 (amended): GetConnection with a dialect that is not sqlite3, postgres
\* or mysql always fails and returns no handle; the error is the one of
\* the first step that fails: "cannot connect to database" when the open
\* step fails (as it must when no driver of that name is registered),
\* "cannot ping database" when the ping fails, and "unsupported dialect",
\* naming the dialect, exactly when open and ping both succeeded.
C1_UnsupportedDialectFails ==
    (Connected /\ env[1].Dialect \notin SupportedDialects)
        => /\ call.err # <<>>
           /\ call.db = "nil"
           /\ call.steps # <<>>
           /\ FailedStep(call.err) = Last(call.steps)
           /\ FailedStep(call.err) \in {"sql.Open", "db.Ping", "dialects"}
           /\ (Last(call.steps) = "dialects")
                  <=> (call.err = <<"unsupported dialect: ", env[1].Dialect>>)
           /\ (env[1].Dialect \notin drivers) => Last(call.steps) = "sql.Open"

\* C1 witness: a driver is registered under a name that is no dialect, open
\* and ping succeed, and the dialect check rejects it
C1_Witness ==
    /\ Connected
    /\ env[1].Dialect = "mssql"
    /\ call.steps = <<"sql.Open", "db.Ping", "dialects">>
    /\ call.err = <<"unsupported dialect: ", "mssql">>

----------------------------------------------------------------------------
\* C2 (as claimed): the descriptor of every successful GetEnvironment has a
\* non-empty dialect and a non-empty data source.
C2_ResolvedNonEmpty ==
    Resolved => (env[1].Dialect # "" /\ env[1].DataSource # <<>>)

----------------------------------------------------------------------------
\* C3: the value of the variable a placeholder names: "" when it is unset
\* (and for the empty name of "${}")
ValueOf(name, e) == IF name \in DOMAIN e THEN e[name] ELSE <<>>

\* the characters of a variable name, and the one-character special names
NameChars == Letters \cup Digits \cup {"_"}
SpecialNames == {"*", "#", "$", "@", "!", "?", "-"} \cup Digits

\* the position of the first "}" of r, or 0; the length of the longest
\* prefix of r made of name characters
FirstClosing(r) ==
    LET K == {k \in 1..Len(r) : r[k] = "}"}
    IN  IF K = {} THEN 0 ELSE CHOOSE k \in K : \A m \in K : k <= m
NameRun(r) ==
    LET N == {n \in 0..Len(r) : \A k \in 1..n : r[k] \in NameChars}
    IN  CHOOSE n \in N : \A m \in N : m <= n

\* s with every placeholder replaced by the value of its variable, read
\* from the left: "${name}" up to the first "}", "$" and a special
\* character, "$name" with the longest name.  A "${" that no "}" follows
\* names no variable and is dropped; a "$" that ends the string or that no
\* name follows stays.
RECURSIVE Substituted(_, _)
Substituted(s, e) ==
    IF s = <<>> THEN <<>>
    ELSE IF Head(s) # "$" \/ Len(s) = 1
    THEN <<Head(s)>> \o Substituted(Tail(s), e)
    ELSE LET r == Tail(s)
             close == FirstClosing(r)
             run == NameRun(r)
         IN  IF r[1] = "{"
             THEN IF close = 0
                  THEN Substituted(Tail(r), e)
                  ELSE ValueOf(SubSeq(r, 2, close - 1), e)
                           \o Substituted(SubSeq(r, close + 1, Len(r)), e)
             ELSE IF r[1] \in SpecialNames
             THEN ValueOf(<<r[1]>>, e) \o Substituted(Tail(r), e)
             ELSE IF run = 0
             THEN <<"$">> \o Substituted(r, e)
             ELSE ValueOf(SubSeq(r, 1, run), e)
                      \o Substituted(SubSeq(r, run + 1, Len(r)), e)

\* C3: when the config has an entry for the selected name with a non-empty
\* dialect and data source, GetEnvironment succeeds; the data source it
\* returns is the configured one with every placeholder replaced by the
\* value of its variable in the process environment ("" if unset), the
\* directory is the configured one, or "migrations" when that is empty, and
\* the other fields are the configured ones.
C3_ResolvesValidEntry ==
    (/\ call.op = "GetEnvironment"
     /\ Readable
     /\ Entry # <<>>
     /\ Entry[1].Dialect # ""
     /\ Entry[1].DataSource # <<>>)
        => /\ call.err = <<>>
           /\ env # <<>>
           /\ env[1].DataSource = Substituted(Entry[1].DataSource, environ)
           /\ env[1].Dir = (IF Entry[1].Dir = "" THEN "migrations" ELSE Entry[1].Dir)
           /\ env[1].Dialect = Entry[1].Dialect
           /\ env[1].TableName = Entry[1].TableName
           /\ env[1].SchemaName = Entry[1].SchemaName
           /\ env[1].IgnoreUnknown = Entry[1].IgnoreUnknown

\* C3 witness: "$A/" with A set resolves to the value of A and "/", with
\* the default directory
C3_Witness ==
    /\ Resolved
    /\ Entry[1].DataSource = <<"$", "A", "/">>
    /\ Entry[1].Dir = ""
    /\ VarA \in DOMAIN environ
    /\ env[1].DataSource = environ[VarA] \o <<"/">>
    /\ env[1].DataSource # Entry[1].DataSource
    /\ env[1].Dir = "migrations"

----------------------------------------------------------------------------
\* the data source holds "tls=custom": some ten characters of it spell it
HasTlsMarker(s) ==
    \E k \in 1..Len(s) :
        /\ k + 9 <= Len(s)
        /\ <<s[k], s[k + 1], s[k + 2], s[k + 3], s[k + 4],
             s[k + 5], s[k + 6], s[k + 7], s[k + 8], s[k + 9]>>
               = <<"t", "l", "s", "=", "c", "u", "s", "t", "o", "m">>

\* C4: GetConnection calls RegisterTlsConfig if and only if the dialect is
\* exactly "mysql" and the data source contains "tls=custom".
C4_TlsIffMysqlAndMarker ==
    Connected
        => (("RegisterTlsConfig" \in {call.steps[k] : k \in 1..Len(call.steps)})
               <=> (env[1].Dialect = "mysql" /\ HasTlsMarker(env[1].DataSource)))

\* C4 witness: a mysql data source with the marker after other text, and
\* the registration ran
C4_Witness ==
    /\ Connected
    /\ env[1].Dialect = "mysql"
    /\ env[1].DataSource = <<"/">> \o TlsMarker
    /\ call.steps[1] = "RegisterTlsConfig"

----------------------------------------------------------------------------
\* the steps of a GetConnection that nothing stops
AllSteps(e) ==
    (IF e.Dialect = "mysql" /\ HasTlsMarker(e.DataSource)
     THEN <<"RegisterTlsConfig">> ELSE <<>>)
        \o <<"sql.Open", "db.Ping", "dialects">>

\* the CA certificate the process environment names can be registered
CertificateUsable ==
    /\ MYSQL_CA_CERT_FILE \in DOMAIN environ
    /\ environ[MYSQL_CA_CERT_FILE] \in DOMAIN CertFiles
    /\ CertFiles[environ[MYSQL_CA_CERT_FILE]] = "PEM"

\* C5: GetConnection runs TLS registration (when applicable), open, ping
\* and the dialect check in that order, each at most once; it returns an
\* error exactly when a step fails, that step is the last one it ran, and
\* when the TLS registration fails (the CA certificate cannot be read or
\* holds no certificate) the open call is not made.
C5_StepsInOrderAbortOnFailure ==
    Connected
        => /\ call.steps = SubSeq(AllSteps(env[1]), 1, Len(call.steps))
           /\ call.steps # <<>>
           /\ (call.err = <<>>) => call.steps = AllSteps(env[1])
           /\ (call.err # <<>>) => FailedStep(call.err) = Last(call.steps)
           /\ (call.steps[1] = "RegisterTlsConfig" /\ ~CertificateUsable)
                  => /\ call.steps = <<"RegisterTlsConfig">>
                     /\ call.err # <<>>
                     /\ call.db = "nil"

\* C5 witness: the registration failed and nothing ran after it
C5_Witness ==
    /\ Connected
    /\ call.steps = <<"RegisterTlsConfig">>
    /\ FailedStep(call.err) = "RegisterTlsConfig"
    /\ ~CertificateUsable

----------------------------------------------------------------------------
\* C6: GetEnvironment checks that the environment exists, then that its
\* dialect is not empty, then that its data source is not empty: an entry
\* with an empty dialect fails with "No dialect specified" whatever its
\* data source, one with a dialect and an empty data source with "No data
\* source specified".
C6_DialectCheckedFirst ==
    (call.op = "GetEnvironment" /\ Readable)
        => /\ (Entry = <<>>) => call.err[1] = "No environment: "
           /\ (Entry # <<>> /\ Entry[1].Dialect = "")
                  => call.err = <<"No dialect specified">>
           /\ (Entry # <<>> /\ Entry[1].Dialect # "" /\ Entry[1].DataSource = <<>>)
                  => call.err = <<"No data source specified">>

\* C6 witness: dialect and data source both empty, and the error is the
\* dialect's
C6_Witness ==
    /\ call.op = "GetEnvironment"
    /\ Readable
    /\ Entry # <<>>
    /\ Entry[1].Dialect = ""
    /\ Entry[1].DataSource = <<>>
    /\ call.err = <<"No dialect specified">>

----------------------------------------------------------------------------
\* C7: when the selected name is no key of the parsed config,
\* GetEnvironment returns no descriptor and the error "No environment: "
\* followed by exactly that name; when the name is a key with a descriptor
\* it never returns that error.
C7_UnknownEnvironmentNamed ==
    (call.op = "GetEnvironment" /\ Readable)
        => /\ (ConfigEnvironment \notin DOMAIN disk.config)
                  => /\ env = <<>>
                     /\ call.err = <<"No environment: ", ConfigEnvironment>>
           /\ (ConfigEnvironment \in DOMAIN disk.config /\ Entry # <<>>)
                  => (call.err = <<>> \/ call.err[1] # "No environment: ")

\* C7 witness: "production" is asked of a config that has "development"
\* only
C7_Witness ==
    /\ call.op = "GetEnvironment"
    /\ Readable
    /\ DOMAIN disk.config = {"development"}
    /\ ConfigEnvironment = "production"
    /\ call.err = <<"No environment: ", "production">>

----------------------------------------------------------------------------
\* C8: a successful GetEnvironment sets the ignore-unknown flag to the
\* entry's value, sets the table (the schema) name to the entry's when
\* that is not empty and leaves it as it was when it is empty; nothing else
\* changes the three settings.  So after any sequence of calls the flag is
\* that of the most recent successful resolution, and the table (schema)
\* name that of the most recent one that configured it.
C8_SettingsFollowLastResolution ==
    [][ /\ (call'.op = "GetEnvironment" /\ call'.err = <<>>)
            => /\ ignoreUnknown' = Entry[1].IgnoreUnknown
               /\ tableName' = (IF Entry[1].TableName # ""
                                THEN Entry[1].TableName ELSE tableName)
               /\ schemaName' = (IF Entry[1].SchemaName # ""
                                 THEN Entry[1].SchemaName ELSE schemaName)
        /\ ~(call'.op = "GetEnvironment" /\ call'.err = <<>>)
            => UNCHANGED <<tableName, schemaName, ignoreUnknown>> ]_vars

\* C8 witness: the entry just resolved configures no table and no schema,
\* and the names an earlier resolution set are still in force
C8_Witness ==
    /\ Resolved
    /\ Entry[1].TableName = ""
    /\ Entry[1].SchemaName = ""
    /\ tableName = "t2"
    /\ schemaName = "s1"
    /\ ignoreUnknown = Entry[1].IgnoreUnknown

----------------------------------------------------------------------------
\* C9 (as claimed): when GetConnection returns an error it returns no
\* handle, and no handle it opened is left open.
C9_NothingLeftOpenOnError ==
    (Connected /\ call.err # <<>>) => (call.db = "nil" /\ ~call.unclosed)

----------------------------------------------------------------------------
\* C10: a GetEnvironment that fails returns no descriptor and leaves the
\* table name, the schema name and the ignore-unknown flag as they were.
C10_FailureChangesNothing ==
    [][ (call'.op = "GetEnvironment" /\ call'.err # <<>>)
            => /\ env' = <<>>
               /\ UNCHANGED <<tableName, schemaName, ignoreUnknown>> ]_vars

\* C10 witness: an entry with its own table, schema and flag failed its
\* validation, and the settings of an earlier resolution are in force
C10_Witness ==
    /\ call.op = "GetEnvironment"
    /\ call.err = <<"No data source specified">>
    /\ env = <<>>
    /\ Entry[1].TableName = "t1"
    /\ Entry[1].SchemaName = "s1"
    /\ Entry[1].IgnoreUnknown = FALSE
    /\ tableName = "t2"
    /\ schemaName = ""
    /\ ignoreUnknown = TRUE

====
